---- MODULE Spec2Model ----
(***************************************************************************)
(* The two allocator cores of assignment3-mm over the memlib arena:        *)
(*   dll : mm_heap_dll.c, circular free list with boundary tags            *)
(*   kr2 : mm_heap_kr2.c, doubly-linked list of all blocks with isFree     *)
(* Memory is an array of Header-sized units.  Addresses are unit indices:  *)
(* NULL is 0, the static sentinel lies below the arena, and the arena      *)
(* occupies HeapLo .. HeapLo + brk - 1.                                    *)
(***************************************************************************)
EXTENDS Integers, Sequences, FiniteSets, TLC

-----------------------------------------------------------------------------
(* Bounds of the model *)

\* mem_pagesize() / sizeof(Header): the units of one page
PageUnits == 4
\* the arena's capacity in units (mem_sbrk fails beyond it)
MaxHeapUnits == 8
\* the largest payload, in units, that a caller requests
MaxReqUnits == 4
\* the most live pointers a caller holds at once
MaxLive == 3
\* the bits of a size_t: sizes are computed modulo 2^SizeBits
SizeBits == 12

-----------------------------------------------------------------------------
(* Layout *)

NULL == 0
\* &base[0] (dll) or &base (kr2)
Base == 1
\* mem_heap_lo(), in units; the units between the sentinel and the arena
\* belong to neither
HeapLo == Base + 4
MemTop == HeapLo + MaxHeapUnits - 1
Addr == 1..MemTop

Variants == {"dll", "kr2"}

\* sizeof(Header)
DllSizeofHeader == 16
Kr2SizeofHeader == 32
SizeofHeader(v) == IF v = "dll" THEN DllSizeofHeader ELSE Kr2SizeofHeader

\* the units mm_units adds to the payload units
DllOverhead == 2
Kr2Overhead == 1
Overhead(v) == IF v = "dll" THEN DllOverhead ELSE Kr2Overhead

\* the cells of the static sentinel
BaseCells(v) == IF v = "dll" THEN {Base, Base + 1} ELSE {Base}

Cell(p, pv, nx, f, s) ==
    [ptr |-> p, prev |-> pv, next |-> nx, isFree |-> f, size |-> s]
ZeroCell == Cell(NULL, NULL, NULL, FALSE, 0)
\* the content of a unit that holds no header and no tail: payload, the inside
\* of a free block, arena memory never written
JUNK == 0 - 1
JunkCell == Cell(JUNK, JUNK, JUNK, FALSE, JUNK)

\* bound of every loop of the code: a walk that takes more steps never ends
Fuel == 4 * (MaxHeapUnits + 2)

-----------------------------------------------------------------------------
(* The machine state an operation runs on:                                 *)
(*   v     variant                                                         *)
(*   mem   the Header cells                                                *)
(*   freep the cursor                                                      *)
(*   brk   mem_heapsize() in units                                         *)
(*   up    the arena is set up: mem_init has run and mem_deinit has not    *)
(*         run since                                                       *)
(*   st    "ok", or how the operation stopped: "fault" (access outside the *)
(*         sentinel and the arena), "wild" (a header field read from a unit*)
(*         that holds none), "abort" (assert), "hang" (endless loop)       *)
(*   sb    how many more mem_sbrk calls the arena grants during this call  *)
(*   ext   how many mem_sbrk calls have succeeded during this call         *)
(*   wr    the header fields written during this call, as <<unit, field>>  *)
(*   ub    what a read of static memory past the sentinel yields during    *)
(*         this call: "zero" (the bytes there are zero) or "trap" (any     *)
(*         other content; nothing is known of the run from there on)       *)
(***************************************************************************)

Stop(S, how) == IF S.st = "ok" THEN [S EXCEPT !.st = how] ELSE S

Valid(S, a) == a \in BaseCells(S.v) \/ (a >= HeapLo /\ a < HeapLo + S.brk)

\* a read of a->s.fld: stops the operation when a is not addressable or the
\* unit holds no such field
Chk(S, a, fld) ==
    IF ~Valid(S, a)
    THEN IF a # NULL /\ S.ub = "zero" THEN S ELSE Stop(S, "fault")
    ELSE IF S.mem[a][fld] = JUNK THEN Stop(S, "wild")
    ELSE S

Rd(S, a, fld) == IF Valid(S, a) THEN S.mem[a][fld] ELSE 0
RdFree(S, a) == IF Valid(S, a) THEN S.mem[a].isFree ELSE FALSE

\* a write of a field of *a
W(S, a, fld, val) ==
    IF S.st # "ok" THEN S
    ELSE IF ~Valid(S, a) THEN Stop(S, "fault")
    ELSE [S EXCEPT !.mem[a][fld] = val, !.wr = @ \cup {<<a, fld>>}]

SetFreep(S, p) == IF S.st # "ok" THEN S ELSE [S EXCEPT !.freep = p]

\* mem_sbrk(mm_bytes(nu)): the old break, or failure.  Of an arena that is
\* not set up the call fails or returns memory that is not the program's; the
\* first write to that memory ends what is known of the run.
mem_sbrk_ok(S, nu) == S.sb > 0 /\ S.brk + nu <= MaxHeapUnits
mem_sbrk(S, nu) ==
    IF ~S.up THEN Stop(S, "fault")
    ELSE [S EXCEPT !.brk = @ + nu, !.sb = @ - 1, !.ext = @ + 1]

\* mem_init(), mem_reset_brk(), mem_deinit()
mem_init(S) == [S EXCEPT !.up = TRUE, !.brk = 0]
mem_reset_brk(S) == [S EXCEPT !.brk = 0]
mem_deinit(S) == [S EXCEPT !.up = FALSE, !.brk = 0]

\* mem_heap_hi() is the last byte of the arena: a unit address is below it
\* exactly when the unit lies in the arena or below
BelowHeapHi(S, a) == a < HeapLo + S.brk
AboveHeapLo(S, a) == a > HeapLo

-----------------------------------------------------------------------------
(* Shared pure helpers *)

\* size_t arithmetic
SizeMod == 2 ^ SizeBits
SIZE_MAX == SizeMod - 1

mm_units(v, nbytes) ==
    (((nbytes + SizeofHeader(v) - 1) % SizeMod) \div SizeofHeader(v)
        + Overhead(v)) % SizeMod

mm_bytes(v, nunits) == (nunits * SizeofHeader(v)) % SizeMod

mm_payload(bp) == bp + 1

mm_block(ap) == ap - 1

Min(a, b) == IF a < b THEN a ELSE b
Max(a, b) == IF a > b THEN a ELSE b

\* The element of a one-element set.  Only({e(x) : x \in {v}}) is e(v) with
\* v, the machine state a call returns, computed once and named x.
Only(s) == CHOOSE x \in s : TRUE

-----------------------------------------------------------------------------
(* mm_heap_dll.c *)

\* base[0].s.ptr = base[1].s.ptr = freep = &base[0];
\* base[0].s.size = base[1].s.size = 2;
dll_base_init(S) ==
    [S EXCEPT !.freep = Base,
              !.mem[Base].ptr = Base, !.mem[Base].size = 2,
              !.mem[Base + 1].ptr = Base, !.mem[Base + 1].size = 2,
              !.wr = @ \cup ({Base, Base + 1} \X {"ptr", "size"})]

dll_mm_init(S) == dll_base_init(mem_init(S))
dll_mm_reset(S) == dll_base_init(mem_reset_brk(S))
dll_mm_deinit(S) == dll_base_init(mem_deinit(S))

mm_tail(S, bp) == bp + Rd(S, bp, "size") - 1

link_header(S, a, b) ==
    LET S1 == W(S, a, "ptr", b)
        S2 == Chk(S1, b, "size")
    IN  W(S2, mm_tail(S2, b), "ptr", a)

unlink_header(S, a) ==
    LET S1 == Chk(Chk(S, a, "size"), a, "ptr")
        S2 == Chk(S1, mm_tail(S1, a), "ptr")
        prev == Rd(S2, mm_tail(S2, a), "ptr")
        next == Rd(S2, a, "ptr")
    IN  link_header(S2, prev, next)

\* coalesce after its unlink_header(upper), which left S1
coalesce_sizes(S1, lower, upper) ==
    LET S2 == Chk(S1, lower, "size")
        S3 == Chk(S2, mm_tail(S2, lower), "ptr")
        prev == Rd(S3, mm_tail(S3, lower), "ptr")
        S4 == W(S3, lower, "size", Rd(S3, lower, "size") + Rd(S3, upper, "size"))
        S5 == W(S4, mm_tail(S4, lower), "size", Rd(S4, lower, "size"))
    IN  W(S5, mm_tail(S5, lower), "ptr", prev)

coalesce(S, lower, upper) ==
    Only({coalesce_sizes(S1, lower, upper) : S1 \in {unlink_header(S, upper)}})

\* freep = mm_tail(bp)->s.ptr
freep_to_prev(S, bp) ==
    LET S1 == Chk(Chk(S, bp, "size"), mm_tail(S, bp), "ptr")
    IN  SetFreep(S1, Rd(S1, mm_tail(S1, bp), "ptr"))

dll_free_upper(S, bp) ==
    LET nn == bp + Rd(S, bp, "size")
        S1 == IF BelowHeapHi(S, nn) THEN Chk(S, nn, "ptr") ELSE S
    IN  IF S1.st = "ok" /\ BelowHeapHi(S1, nn) /\ Rd(S1, nn, "ptr") # NULL
        THEN Only({freep_to_prev(S2, bp) : S2 \in {coalesce(S1, bp, nn)}})
        ELSE S1

\* mm_free without the merge with the lower neighbour
dll_free_lower_skipped(S, bp) == S

dll_free_lower(S, bp) ==
    LET pt == bp - 1
        S1 == IF AboveHeapLo(S, pt) THEN Chk(S, pt, "ptr") ELSE S
    IN  IF S1.st = "ok" /\ AboveHeapLo(S1, pt) /\ Rd(S1, pt, "ptr") # NULL
        THEN LET S2 == Chk(S1, Rd(S1, pt, "ptr"), "ptr")
                 pnh == Rd(S2, Rd(S2, pt, "ptr"), "ptr")
             IN  Only({freep_to_prev(S3, pnh) : S3 \in {coalesce(S2, pnh, bp)}})
        ELSE S1

\* mm_free without the test for a NULL ap
dll_mm_free_unguarded(S, ap) ==
    IF S.st # "ok" THEN S
    ELSE LET bp == mm_block(ap)
             S0 == Chk(S, bp, "size")
         IN  IF S0.st # "ok" THEN S0
             ELSE IF ~(Rd(S0, bp, "size") > 0 /\ Rd(S0, bp, "size") <= S0.brk)
             THEN Stop(S0, "abort")
             ELSE LET p  == S0.freep
                      S1 == Chk(S0, p, "ptr")
                      S2 == link_header(S1, bp, Rd(S1, p, "ptr"))
                      S3 == link_header(S2, p, bp)
                      S4 == dll_free_upper(S3, bp)
                  IN  dll_free_lower(S4, bp)

dll_mm_free(S, ap) ==
    IF ap = NULL \/ S.st # "ok" THEN S
    ELSE LET bp == mm_block(ap)
             S0 == Chk(S, bp, "size")
         IN  IF S0.st # "ok" THEN S0
             ELSE IF ~(Rd(S0, bp, "size") > 0 /\ Rd(S0, bp, "size") <= S0.brk)
             THEN Stop(S0, "abort")
             ELSE LET p  == S0.freep
                      S1 == Chk(S0, p, "ptr")
                      S2 == link_header(S1, bp, Rd(S1, p, "ptr"))
                      S3 == link_header(S2, p, bp)
                      S4 == dll_free_upper(S3, bp)
                  IN  dll_free_lower(S4, bp)

dll_morecore(S, nu0) ==
    LET nu == Max(nu0, PageUnits)
    IN  IF ~mem_sbrk_ok(S, nu) THEN [S |-> S, ret |-> NULL]
        ELSE LET bp == HeapLo + S.brk
                 S1 == mem_sbrk(S, nu)
                 S2 == W(S1, bp, "size", nu)
             IN  Only({[S |-> S3, ret |-> S3.freep] :
                       S3 \in {dll_mm_free(S2, mm_payload(bp))}})

\* dll_hand_out without the mm_tail(p)->s.ptr = NULL
dll_hand_out_keeps_tail(T0, prevp, q) ==
    LET T1 == W(T0, q, "ptr", NULL)
        T3 == SetFreep(T1, prevp)
    IN  [S |-> T3, ret |-> IF T3.st = "ok" THEN mm_payload(q) ELSE NULL]

\* p->s.ptr = NULL; mm_tail(p)->s.ptr = NULL; freep = prevp; return
dll_hand_out(T0, prevp, q) ==
    LET T1 == W(T0, q, "ptr", NULL)
        T2 == W(T1, mm_tail(T1, q), "ptr", NULL)
        T3 == SetFreep(T2, prevp)
    IN  [S |-> T3, ret |-> IF T3.st = "ok" THEN mm_payload(q) ELSE NULL]

\* the block found: unlink it or split it, and hand out its upper part
dll_take(S, nunits, prevp, p) ==
    LET exact == Rd(S, p, "size") = nunits
        A0 == Chk(S, p, "ptr")
        SA == link_header(A0, prevp, Rd(A0, p, "ptr"))
        B1 == W(S, p, "size", Rd(S, p, "size") - nunits)
        B2 == W(B1, mm_tail(B1, p), "size", Rd(B1, p, "size"))
        B3 == W(B2, mm_tail(B2, p), "ptr", prevp)
        q  == IF exact THEN p ELSE p + Rd(B3, p, "size")
        SB == W(B3, q, "size", nunits)
    IN  Only({dll_hand_out(T0, prevp, q) : T0 \in {IF exact THEN SA ELSE SB}})

RECURSIVE dll_scan(_, _, _, _, _)
dll_scan(S, nunits, prevp, p, fuel) ==
    IF S.st # "ok" THEN [S |-> S, ret |-> NULL]
    ELSE IF fuel = 0 THEN [S |-> Stop(S, "hang"), ret |-> NULL]
    ELSE IF Chk(S, p, "size").st # "ok"
    THEN [S |-> Chk(S, p, "size"), ret |-> NULL]
    ELSE IF Rd(S, p, "size") = nunits \/ Rd(S, p, "size") >= nunits + 2
    THEN dll_take(S, nunits, prevp, p)
    ELSE IF p = S.freep
    THEN Only({IF R.S.st # "ok" \/ R.ret = NULL THEN [S |-> R.S, ret |-> NULL]
               ELSE LET S1 == Chk(R.S, R.ret, "ptr")
                    IN  dll_scan(S1, nunits, R.ret, Rd(S1, R.ret, "ptr"), fuel - 1) :
               R \in {dll_morecore(S, nunits)}})
    ELSE LET S1 == Chk(S, p, "ptr")
         IN  dll_scan(S1, nunits, p, Rd(S1, p, "ptr"), fuel - 1)

dll_mm_malloc(S, nbytes) ==
    LET S0 == IF S.freep = NULL THEN dll_mm_init(S) ELSE S
        prevp == S0.freep
        S1 == Chk(S0, prevp, "ptr")
    IN  dll_scan(S1, mm_units("dll", nbytes), prevp, Rd(S1, prevp, "ptr"), Fuel)

\* while (tmp->s.ptr > tmp) { tmp = tmp->s.ptr; res += tmp->s.size; }
RECURSIVE dll_getfree_scan(_, _, _, _)
dll_getfree_scan(S, tmp, res, fuel) ==
    LET S1 == Chk(S, tmp, "ptr")
        nx == Rd(S1, tmp, "ptr")
        S2 == Chk(S1, nx, "size")
    IN  IF S1.st # "ok" THEN [S |-> S1, val |-> 0]
        ELSE IF fuel = 0 THEN [S |-> Stop(S1, "hang"), val |-> 0]
        ELSE IF nx > tmp
        THEN IF S2.st # "ok" THEN [S |-> S2, val |-> 0]
             ELSE dll_getfree_scan(S2, nx, res + Rd(S2, nx, "size"), fuel - 1)
        ELSE [S |-> S1, val |-> mm_bytes("dll", res)]

dll_mm_getfree(S) ==
    IF S.freep = NULL THEN [S |-> S, val |-> 0]
    ELSE LET S1 == Chk(S, S.freep, "size")
         IN  IF S1.st # "ok" THEN [S |-> S1, val |-> 0]
             ELSE dll_getfree_scan(S1, S.freep, Rd(S1, S.freep, "size"), Fuel)

-----------------------------------------------------------------------------
(* mm_heap_kr2.c *)

WFree(S, a, val) ==
    IF S.st # "ok" THEN S
    ELSE IF ~Valid(S, a) THEN Stop(S, "fault")
    ELSE [S EXCEPT !.mem[a].isFree = val, !.wr = @ \cup {<<a, "isFree">>}]

\* base.s.next = base.s.prev = freep = &base;
\* base.s.isFree = false; base.s.size = 0;
kr2_base_init(S) ==
    [S EXCEPT !.freep = Base,
              !.mem[Base].next = Base, !.mem[Base].prev = Base,
              !.mem[Base].isFree = FALSE, !.mem[Base].size = 0,
              !.wr = @ \cup ({Base} \X {"next", "prev", "isFree", "size"})]

kr2_mm_init(S) == kr2_base_init(mem_init(S))
kr2_mm_reset(S) == kr2_base_init(mem_reset_brk(S))
kr2_mm_deinit(S) == kr2_base_init(mem_deinit(S))

\* connect_dlinkedlist with n->s.prev = n in the place of n->s.prev = p
connect_dlinkedlist_selfprev(S, p, n) ==
    LET S1 == W(S, p, "next", n)
    IN  W(S1, n, "prev", n)

connect_dlinkedlist(S, p, n) ==
    LET S1 == W(S, p, "next", n)
    IN  W(S1, n, "prev", p)

\* while (p->s.next > p) p = p->s.next;
RECURSIVE kr2_last(_, _, _)
kr2_last(S, p, fuel) ==
    IF S.st # "ok" THEN [S |-> S, p |-> p]
    ELSE IF fuel = 0 THEN [S |-> Stop(S, "hang"), p |-> p]
    ELSE IF Chk(S, p, "next").st # "ok"
    THEN [S |-> Chk(S, p, "next"), p |-> p]
    ELSE IF Rd(S, p, "next") > p THEN kr2_last(S, Rd(S, p, "next"), fuel - 1)
    ELSE [S |-> S, p |-> p]

\* if (bp->s.next == NULL): append the fresh block behind the last one
kr2_free_append(S, bp) ==
    IF Chk(S, bp, "next").st # "ok" THEN Chk(S, bp, "next")
    ELSE IF Rd(S, bp, "next") # NULL THEN S
    ELSE Only({connect_dlinkedlist(connect_dlinkedlist(L.S, L.p, bp),
                                   bp, Rd(L.S, L.p, "next")) :
               L \in {kr2_last(S, S.freep, Fuel)}})

kr2_free_upper(S, bp) ==
    LET nx == Rd(S, bp, "next")
        S1 == Chk(Chk(S, bp, "next"), nx, "size")
    IN  IF S1.st = "ok" /\ RdFree(S1, nx) /\ bp + Rd(S1, bp, "size") = nx
        THEN LET S2 == W(S1, bp, "size", Rd(S1, bp, "size") + Rd(S1, nx, "size"))
             IN  connect_dlinkedlist(S2, bp, Rd(S2, nx, "next"))
        ELSE S1

\* the block that stands for bp after the merge with the lower neighbour
kr2_free_lower(S, bp) ==
    LET pv == Rd(S, bp, "prev")
        S1 == Chk(Chk(S, bp, "prev"), pv, "size")
    IN  IF S1.st = "ok" /\ RdFree(S1, pv) /\ pv + Rd(S1, pv, "size") = bp
        THEN LET S2 == W(S1, pv, "size", Rd(S1, pv, "size") + Rd(S1, bp, "size"))
                 S3 == connect_dlinkedlist(S2, pv, Rd(S2, bp, "next"))
             IN  [S |-> S3, bp |-> pv]
        ELSE [S |-> S1, bp |-> bp]

kr2_mm_free(S, ap) ==
    IF ap = NULL \/ S.st # "ok" THEN S
    ELSE LET bp == mm_block(ap)
             S0 == Chk(S, bp, "size")
         IN  IF S0.st # "ok" THEN S0
             ELSE IF ~(Rd(S0, bp, "size") > 0 /\ Rd(S0, bp, "size") <= S0.brk)
             THEN Stop(S0, "abort")
             ELSE LET S1 == kr2_free_append(S0, bp)
                      S2 == WFree(S1, bp, TRUE)
                      S3 == kr2_free_upper(S2, bp)
                  IN  Only({SetFreep(Chk(L.S, L.bp, "prev"), Rd(L.S, L.bp, "prev")) :
                            L \in {kr2_free_lower(S3, bp)}})

kr2_morecore(S, nu0) ==
    LET nu == Max(nu0, PageUnits)
    IN  IF ~mem_sbrk_ok(S, nu) THEN [S |-> S, ret |-> NULL]
        ELSE LET bp == HeapLo + S.brk
                 S1 == mem_sbrk(S, nu)
                 S2 == W(S1, bp, "size", nu)
                 S3 == W(S2, bp, "prev", NULL)
                 S4 == W(S3, bp, "next", NULL)
             IN  Only({[S |-> S5, ret |-> S5.freep] :
                       S5 \in {kr2_mm_free(S4, mm_payload(bp))}})

\* freep = prev_p; return
kr2_hand_out(T0, prev_p, q) ==
    LET T1 == SetFreep(T0, prev_p)
    IN  [S |-> T1, ret |-> IF T1.st = "ok" THEN mm_payload(q) ELSE NULL]

\* the block found: flip its flag or split it, and hand out its upper part
kr2_take(S, nunits, prev_p, p) ==
    LET exact == Rd(S, p, "size") = nunits
        SA == WFree(S, p, FALSE)
        B0 == Chk(S, p, "next")
        B1 == W(B0, p, "size", Rd(B0, p, "size") - nunits)
        next == Rd(B1, p, "next")
        q  == IF exact THEN p ELSE p + Rd(B1, p, "size")
        B2 == W(B1, q, "size", nunits)
        B3 == connect_dlinkedlist(B2, p, q)
        B4 == connect_dlinkedlist(B3, q, next)
        SB == WFree(B4, q, FALSE)
    IN  Only({kr2_hand_out(T0, prev_p, q) : T0 \in {IF exact THEN SA ELSE SB}})

RECURSIVE kr2_scan(_, _, _, _, _)
kr2_scan(S, nunits, prev_p, p, fuel) ==
    IF S.st # "ok" THEN [S |-> S, ret |-> NULL]
    ELSE IF fuel = 0 THEN [S |-> Stop(S, "hang"), ret |-> NULL]
    ELSE IF Chk(S, p, "size").st # "ok"
    THEN [S |-> Chk(S, p, "size"), ret |-> NULL]
    ELSE IF Rd(S, p, "size") >= nunits /\ RdFree(S, p)
    THEN kr2_take(S, nunits, prev_p, p)
    ELSE IF p = S.freep
    THEN Only({IF R.S.st # "ok" \/ R.ret = NULL THEN [S |-> R.S, ret |-> NULL]
               ELSE LET S1 == Chk(R.S, R.ret, "next")
                    IN  kr2_scan(S1, nunits, R.ret, Rd(S1, R.ret, "next"), fuel - 1) :
               R \in {kr2_morecore(S, nunits)}})
    ELSE LET S1 == Chk(S, p, "next")
         IN  kr2_scan(S1, nunits, p, Rd(S1, p, "next"), fuel - 1)

kr2_mm_malloc(S, nbytes) ==
    LET S0 == IF S.freep = NULL THEN kr2_mm_init(S) ELSE S
        prev_p == S0.freep
        S1 == Chk(S0, prev_p, "next")
    IN  kr2_scan(S1, mm_units("kr2", nbytes), prev_p, Rd(S1, prev_p, "next"), Fuel)

\* while (tmp->s.next > tmp) { tmp = tmp->s.next; res += tmp->s.size; }
RECURSIVE kr2_getfree_scan(_, _, _, _)
kr2_getfree_scan(S, tmp, res, fuel) ==
    LET S1 == Chk(S, tmp, "next")
        nx == Rd(S1, tmp, "next")
        S2 == Chk(S1, nx, "size")
    IN  IF S1.st # "ok" THEN [S |-> S1, val |-> 0]
        ELSE IF fuel = 0 THEN [S |-> Stop(S1, "hang"), val |-> 0]
        ELSE IF nx > tmp
        THEN IF S2.st # "ok" THEN [S |-> S2, val |-> 0]
             ELSE kr2_getfree_scan(S2, nx, res + Rd(S2, nx, "size"), fuel - 1)
        ELSE [S |-> S1, val |-> mm_bytes("kr2", res)]

kr2_mm_getfree(S) ==
    IF S.freep = NULL THEN [S |-> S, val |-> 0]
    ELSE LET S1 == Chk(S, S.freep, "size")
         IN  IF S1.st # "ok" THEN [S |-> S1, val |-> 0]
             ELSE kr2_getfree_scan(S1, S.freep, Rd(S1, S.freep, "size"), Fuel)

-----------------------------------------------------------------------------
(* mm_realloc, the same text in both files *)

\* the result of realloc: copied is the byte count handed to memcpy, or -1
\* when the call copies nothing

\* allocate new block, copy old block to new block, free the old one
\* what mm_realloc makes of the answer R of its mm_malloc(newsize)
dll_realloc_copy(R, ap, newsize) ==
    LET bp == mm_block(ap)
        S1 == Chk(R.S, bp, "size")
        oldsize == mm_bytes("dll", Rd(S1, bp, "size") - 1)
    IN  IF R.S.st # "ok" \/ R.ret = NULL
        THEN [S |-> R.S, ret |-> NULL, copied |-> -1]
        ELSE IF S1.st # "ok" THEN [S |-> S1, ret |-> NULL, copied |-> -1]
        ELSE [S |-> dll_mm_free(S1, ap), ret |-> R.ret,
              copied |-> Min(oldsize, newsize)]

\* a NULL ap: the answer R of mm_malloc(newsize) is the answer
dll_realloc_fresh(R) == [S |-> R.S, ret |-> R.ret, copied |-> -1]

dll_realloc_move(S, ap, newsize) ==
    dll_realloc_copy(dll_mm_malloc(S, newsize), ap, newsize)

dll_mm_realloc(S, ap, newsize) ==
    IF ap = NULL
    THEN dll_realloc_fresh(dll_mm_malloc(S, newsize))
    ELSE LET bp == mm_block(ap)
             S0 == Chk(S, bp, "size")
         IN  IF S0.st # "ok" THEN [S |-> S0, ret |-> NULL, copied |-> -1]
             ELSE IF newsize > 0 /\ Rd(S0, bp, "size") >= mm_units("dll", newsize)
             THEN [S |-> S0, ret |-> ap, copied |-> -1]
             ELSE dll_realloc_move(S0, ap, newsize)

\* what mm_realloc makes of the answer R of its mm_malloc(newsize)
kr2_realloc_copy(R, ap, newsize) ==
    LET bp == mm_block(ap)
        S1 == Chk(R.S, bp, "size")
        oldsize == mm_bytes("kr2", Rd(S1, bp, "size") - 1)
    IN  IF R.S.st # "ok" \/ R.ret = NULL
        THEN [S |-> R.S, ret |-> NULL, copied |-> -1]
        ELSE IF S1.st # "ok" THEN [S |-> S1, ret |-> NULL, copied |-> -1]
        ELSE [S |-> kr2_mm_free(S1, ap), ret |-> R.ret,
              copied |-> Min(oldsize, newsize)]

\* a NULL ap: the answer R of mm_malloc(newsize) is the answer
kr2_realloc_fresh(R) == [S |-> R.S, ret |-> R.ret, copied |-> -1]

kr2_realloc_move(S, ap, newsize) ==
    kr2_realloc_copy(kr2_mm_malloc(S, newsize), ap, newsize)

\* the block is kept only when it is larger than the request needs
kr2_mm_realloc_strict(S, ap, newsize) ==
    IF ap = NULL
    THEN kr2_realloc_fresh(kr2_mm_malloc(S, newsize))
    ELSE LET bp == mm_block(ap)
             S0 == Chk(S, bp, "size")
         IN  IF S0.st # "ok" THEN [S |-> S0, ret |-> NULL, copied |-> -1]
             ELSE IF newsize > 0 /\ Rd(S0, bp, "size") > mm_units("kr2", newsize)
             THEN [S |-> S0, ret |-> ap, copied |-> -1]
             ELSE kr2_realloc_move(S0, ap, newsize)

kr2_mm_realloc(S, ap, newsize) ==
    IF ap = NULL
    THEN kr2_realloc_fresh(kr2_mm_malloc(S, newsize))
    ELSE LET bp == mm_block(ap)
             S0 == Chk(S, bp, "size")
         IN  IF S0.st # "ok" THEN [S |-> S0, ret |-> NULL, copied |-> -1]
             ELSE IF newsize > 0 /\ Rd(S0, bp, "size") >= mm_units("kr2", newsize)
             THEN [S |-> S0, ret |-> ap, copied |-> -1]
             ELSE kr2_realloc_move(S0, ap, newsize)

-----------------------------------------------------------------------------
(* The state machine: a caller that uses one of the two allocators *)

VARIABLES
    variant,    \* which of the two files is linked
    mem,        \* the Header cells of the sentinel and the arena
    freep,      \* the cursor
    brk,        \* mem_heapsize() in units
    up,         \* the arena is set up
    status,     \* "ok" until an operation faults, aborts or hangs
    live        \* payload pointer -> requested bytes, for the pointers the
                \* caller holds (returned and not yet freed)

vars == <<variant, mem, freep, brk, up, status, live>>

\* the request sizes of the calls that make up a run: zero, and for each
\* payload unit count its least and its largest byte count
ReqBytes(v) ==
    {0} \cup {k * SizeofHeader(v) : k \in 1..MaxReqUnits}
        \cup {(k - 1) * SizeofHeader(v) + 1 : k \in 1..MaxReqUnits}

\* the sizes a next mm_malloc may be asked for: those, and the largest size_t
MallocBytes(v) == ReqBytes(v) \cup {SIZE_MAX}

\* how many mem_sbrk calls the arena may grant during one call
SbrkGrants == 0..2

Machine(sb) ==
    [v |-> variant, mem |-> mem, freep |-> freep, brk |-> brk, up |-> up,
     st |-> "ok", sb |-> sb, ext |-> 0, wr |-> {}, ub |-> "trap"]

Live == DOMAIN live

\* mm_free(&base[1]) of mm_heap_dll.c reads base[2].s.ptr, one unit past the
\* array; no other call reads outside the sentinel and the arena but at NULL
UBOutcomes(ap) == IF ap = mm_payload(Base) THEN {"trap", "zero"} ELSE {"trap"}
FreeMachine(ub) == [Machine(0) EXCEPT !.ub = ub]

\* the headers of the blocks that tile the arena from unit a up to top, by
\* their size fields; NULL is among them when the sizes do not tile it
RECURSIVE Tiling(_, _, _, _)
Tiling(v, m, top, a) ==
    IF a = top THEN {}
    ELSE IF a > top \/ m[a].size < Overhead(v) THEN {NULL}
    ELSE {a} \cup Tiling(v, m, top, a + m[a].size)

Blocks(S) == Tiling(S.v, S.mem, HeapLo + S.brk, HeapLo)

\* Units that hold no header field are no allocator state: a payload is the
\* caller's, and the inside of a free block, the size of a dll tail and the
\* fields a variant does not declare are written at most, never read.  When
\* an operation returns they are set to JUNK; an operation that reads a JUNK
\* field stops as "wild", so no operation's result depends on them.
Scrub(S) ==
    LET H == Blocks(S)
        T == IF S.v = "dll" THEN {h + S.mem[h].size - 1 : h \in H} ELSE {}
        c(a) == S.mem[a]
    IN  IF NULL \in H THEN S.mem
        ELSE [a \in Addr |->
                IF a \in BaseCells(S.v) THEN c(a)
                ELSE IF a \in H /\ S.v = "dll"
                THEN Cell(c(a).ptr, JUNK, JUNK, FALSE, c(a).size)
                ELSE IF a \in H
                THEN Cell(JUNK, c(a).prev, c(a).next, c(a).isFree, c(a).size)
                ELSE IF a \in T THEN Cell(c(a).ptr, JUNK, JUNK, FALSE, JUNK)
                ELSE JunkCell]

Grant(p, n) == [x \in Live \cup {p} |-> IF x = p THEN n ELSE live[x]]
Drop(p) == [x \in Live \ {p} |-> live[x]]

\* the operation ran to its return: its effects become the state
Commit(S, newlive) ==
    IF S.st = "ok"
    THEN /\ mem' = Scrub(S)
         /\ freep' = S.freep
         /\ brk' = S.brk
         /\ up' = S.up
         /\ live' = newlive
         /\ UNCHANGED <<variant, status>>
    ELSE /\ status' = S.st
         /\ UNCHANGED <<variant, mem, freep, brk, up, live>>

Init ==
    /\ variant \in Variants
    /\ mem = [a \in Addr |-> IF a < HeapLo THEN ZeroCell ELSE JunkCell]
    /\ freep = NULL
    /\ brk = 0
    /\ up = FALSE
    /\ status = "ok"
    /\ live = [x \in {} |-> 0]

DllMalloc ==
    /\ variant = "dll" /\ status = "ok" /\ Cardinality(Live) < MaxLive
    /\ \E n \in ReqBytes("dll"), sb \in SbrkGrants :
         \E R \in {dll_mm_malloc(Machine(sb), n)} :
             Commit(R.S, IF R.ret = NULL THEN live ELSE Grant(R.ret, n))

Kr2Malloc ==
    /\ variant = "kr2" /\ status = "ok" /\ Cardinality(Live) < MaxLive
    /\ \E n \in ReqBytes("kr2"), sb \in SbrkGrants :
         \E R \in {kr2_mm_malloc(Machine(sb), n)} :
             Commit(R.S, IF R.ret = NULL THEN live ELSE Grant(R.ret, n))

DllFree ==
    /\ variant = "dll" /\ status = "ok"
    /\ \E ap \in Live \cup {NULL} : \E ub \in UBOutcomes(ap) :
         \E S \in {dll_mm_free(FreeMachine(ub), ap)} : Commit(S, Drop(ap))

Kr2Free ==
    /\ variant = "kr2" /\ status = "ok"
    /\ \E ap \in Live \cup {NULL} :
         \E S \in {kr2_mm_free(Machine(0), ap)} : Commit(S, Drop(ap))

\* the pointers the caller holds after realloc(ap, n) returned ret
Regrant(ap, n, ret) ==
    IF ret = NULL THEN live
    ELSE [x \in (Live \ {ap}) \cup {ret} |-> IF x = ret THEN n ELSE live[x]]

DllRealloc ==
    /\ variant = "dll" /\ status = "ok"
    /\ \E ap \in Live \cup {NULL}, n \in ReqBytes("dll"), sb \in SbrkGrants :
         /\ ap = NULL => Cardinality(Live) < MaxLive
         /\ \E ub \in UBOutcomes(ap) :
              \E R \in {dll_mm_realloc([Machine(sb) EXCEPT !.ub = ub], ap, n)} :
                  Commit(R.S, Regrant(ap, n, R.ret))

Kr2Realloc ==
    /\ variant = "kr2" /\ status = "ok"
    /\ \E ap \in Live \cup {NULL}, n \in ReqBytes("kr2"), sb \in SbrkGrants :
         /\ ap = NULL => Cardinality(Live) < MaxLive
         /\ \E R \in {kr2_mm_realloc(Machine(sb), ap, n)} :
                Commit(R.S, Regrant(ap, n, R.ret))

\* mm_init(), mm_reset() and mm_deinit() discard every block: no pointer
\* the caller held before is a payload pointer afterwards
NoneLive == [x \in {} |-> 0]

MmInit ==
    /\ status = "ok"
    /\ \E S \in {IF variant = "dll" THEN dll_mm_init(Machine(0))
                                     ELSE kr2_mm_init(Machine(0))} :
         Commit(S, NoneLive)

MmReset ==
    /\ status = "ok"
    /\ \E S \in {IF variant = "dll" THEN dll_mm_reset(Machine(0))
                                     ELSE kr2_mm_reset(Machine(0))} :
         Commit(S, NoneLive)

MmDeinit ==
    /\ status = "ok"
    /\ \E S \in {IF variant = "dll" THEN dll_mm_deinit(Machine(0))
                                     ELSE kr2_mm_deinit(Machine(0))} :
         Commit(S, NoneLive)

Next ==
    \/ DllMalloc
    \/ Kr2Malloc
    \/ DllFree
    \/ Kr2Free
    \/ DllRealloc
    \/ Kr2Realloc
    \/ MmInit
    \/ MmReset
    \/ MmDeinit

Spec == Init /\ [][Next]_vars

-----------------------------------------------------------------------------
(* What the claims speak of *)

Now == Machine(0)

\* the headers of the blocks of the arena, free or allocated
ArenaBlocks == Blocks(Now)
Tiled == NULL \notin ArenaBlocks

\* the free/allocated mark of a block: a non-NULL link in mm_heap_dll.c, the
\* isFree flag in mm_heap_kr2.c
IsFreeBlock(m, h) == IF variant = "dll" THEN m[h].ptr # NULL ELSE m[h].isFree

\* the members of the circular list, walked from the cursor
RECURSIVE ListFrom(_, _, _)
ListFrom(m, p, seen) ==
    IF p \notin Addr \/ p \in seen THEN seen
    ELSE ListFrom(m, IF variant = "dll" THEN m[p].ptr ELSE m[p].next,
                  seen \cup {p})

ListMembers == ListFrom(mem, freep, {})

\* byte address of a unit, and the bytes of a block's payload
ByteOf(a) == a * SizeofHeader(variant)
PayloadBytes(m, h) == mm_bytes(variant, m[h].size - Overhead(variant))

Overlap(p, n, q, m) ==
    Max(ByteOf(p), ByteOf(q)) < Min(ByteOf(p) + n, ByteOf(q) + m)

\* every call a caller may make next, with every answer of the arena
mm_malloc(S, n) == IF S.v = "dll" THEN dll_mm_malloc(S, n) ELSE kr2_mm_malloc(S, n)
mm_free(S, ap) == IF S.v = "dll" THEN dll_mm_free(S, ap) ELSE kr2_mm_free(S, ap)
mm_realloc(S, ap, n) ==
    IF S.v = "dll" THEN dll_mm_realloc(S, ap, n) ELSE kr2_mm_realloc(S, ap, n)

\* the state a returned call leaves
After(S) == [S EXCEPT !.mem = Scrub(S), !.sb = 0, !.ext = 0, !.wr = {}]

-----------------------------------------------------------------------------
\* C1: the byte ranges [p, p+n) of any two distinct live payload pointers
\* never overlap, in both variants.
C1_NoOverlap ==
    /\ \A p \in Live : \A q \in Live \ {p} : ~Overlap(p, live[p], q, live[q])
    /\ status = "ok" =>
          \A n \in MallocBytes(variant), sb \in SbrkGrants :
             \A R \in {mm_malloc(Machine(sb), n)} :
                (R.S.st = "ok" /\ R.ret # NULL) =>
                    /\ R.ret \notin Live
                    /\ \A q \in Live : ~Overlap(R.ret, n, q, live[q])

-----------------------------------------------------------------------------
\* C2: in mm_heap_dll.c the sentinel base[0..1] stays on the circular free
\* list and every pointer the caller holds is the payload of a block inside
\* the arena.
C2_SentinelKept ==
    (variant = "dll" /\ freep # NULL) =>
        /\ Base \in ListMembers
        /\ \A p \in Live : mm_block(p) >= HeapLo /\ mm_block(p) < HeapLo + brk

-----------------------------------------------------------------------------
\* C3: after every call returns, no free block of the arena is followed at
\* once by another free block: b + b.size == c never holds for two free
\* blocks b and c.
NoAdjacentFree(S) ==
    /\ NULL \notin Blocks(S)
    /\ \A b \in Blocks(S) :
          LET c == b + S.mem[b].size
          IN  (IsFreeBlock(S.mem, b) /\ c \in Blocks(S)) => ~IsFreeBlock(S.mem, c)

morecore(S, nu) == IF S.v = "dll" THEN dll_morecore(S, nu) ELSE kr2_morecore(S, nu)

C3_NoAdjacentFree ==
    /\ NoAdjacentFree(Now)
    /\ (status = "ok" /\ freep # NULL) =>
          \A nu \in 1..(MaxReqUnits + 2) :
             \A R \in {morecore(Machine(1), nu)} :
                (R.S.st = "ok" /\ R.ret # NULL) => NoAdjacentFree(R.S)

\* a live block lies between two free blocks, and mm_free of it leaves one
\* free block in the place of the three
C3_Witness ==
    \E p \in Live : \E lo \in ArenaBlocks :
        LET b  == mm_block(p)
            hi == b + mem[b].size
        IN  \E S \in {mm_free(Now, p)} :
            /\ lo + mem[lo].size = b /\ IsFreeBlock(mem, lo)
            /\ hi \in ArenaBlocks /\ IsFreeBlock(mem, hi)
            /\ S.st = "ok"
            /\ Blocks(S) = ArenaBlocks \ {b, hi}
            /\ S.mem[lo].size = mem[lo].size + mem[b].size + mem[hi].size
            /\ IsFreeBlock(S.mem, lo)

-----------------------------------------------------------------------------
\* the machine states that mm_free of every pointer of ps, in any order, leaves
RECURSIVE FreeAll(_, _)
FreeAll(S, ps) ==
    IF ps = {} THEN {S}
    ELSE UNION {FreeAll(mm_free(S, p), ps \ {p}) : p \in ps}

RECURSIVE SumUnits(_)
SumUnits(ps) ==
    IF ps = {} THEN 0
    ELSE LET p == CHOOSE x \in ps : TRUE
         IN  mem[mm_block(p)].size + SumUnits(ps \ {p})

\* a byte count that mm_units turns into nunits
BytesForUnits(nunits) == mm_bytes(variant, nunits - Overhead(variant))

\* mm_free of every live block, in every order, and then one mm_malloc of
\* the units they held: the call returns a block and the arena keeps its size
CoalescesFully ==
    \A S \in FreeAll(Now, Live) : \A sb \in SbrkGrants :
        \A R \in {mm_malloc([After(S) EXCEPT !.sb = sb],
                              BytesForUnits(SumUnits(Live)))} :
           R.S.st = "ok" /\ R.ret # NULL /\ R.S.brk = brk

\* C4: after mm_free of every live block in any order, one mm_malloc whose
\* unit count is the total unit count of those blocks succeeds without
\* mem_sbrk, in both variants.
C4_FullCapacityReuse ==
    (status = "ok" /\ Live # {}) => CoalescesFully

-----------------------------------------------------------------------------
mm_getfree(S) == IF S.v = "dll" THEN dll_mm_getfree(S) ELSE kr2_mm_getfree(S)

\* C5: after every call returns, mm_getfree() is mem_heapsize() minus the
\* bytes, headers included, of the live allocated blocks, in both variants.
C5_Conservation ==
    status = "ok" =>
        \A G \in {mm_getfree(Now)} :
           /\ G.S.st = "ok"
           /\ G.val = mm_bytes(variant, brk) - mm_bytes(variant, SumUnits(Live))

-----------------------------------------------------------------------------
SameState(S) ==
    S.st = "ok" /\ Scrub(S) = mem /\ S.freep = freep /\ S.brk = brk

\* C6: once the list exists, an mm_malloc that returns NULL leaves the arena
\* size, the blocks, the list linkage and the cursor freep as they were
\* before the call, in both variants.
C6_FailedMallocNoEffect ==
    (status = "ok" /\ freep # NULL) =>
        \A n \in ReqBytes(variant), sb \in SbrkGrants :
           \A R \in {mm_malloc(Machine(sb), n)} :
              (R.S.st = "ok" /\ R.ret = NULL) => SameState(R.S)

-----------------------------------------------------------------------------
\* unit a lies in a free block of the arena of S
InFreeBlock(S, a) ==
    \E b \in Blocks(S) :
        b # NULL /\ IsFreeBlock(S.mem, b) /\ b <= a /\ a < b + S.mem[b].size

OnFreeList(S, b) ==
    IF S.v = "dll" THEN b \in ListFrom(S.mem, S.freep, {}) \/ S.mem[b].ptr # NULL
    ELSE S.mem[b].isFree

\* realloc(p, s) returned NULL and left S: the block of p is as it was, and
\* one mm_free of p gives it back
OldBlockKept(S, p) ==
    LET b == mm_block(p)
    IN  /\ S.mem[b].size = mem[b].size
        /\ ~OnFreeList(S, b)
        /\ \A F \in {mm_free(After(S), p)} :
              F.st = "ok" /\ NoAdjacentFree(F) /\ InFreeBlock(F, b)

\* C7: when mm_realloc(p, s) of a live pointer needs a new block and the
\* inner mm_malloc fails, it returns NULL, the block of p is still allocated
\* with the same size and off the free list, and p can still be freed.
C7_FailedReallocKeepsOld ==
    status = "ok" =>
        \A p \in Live : \A s \in ReqBytes(variant), sb \in SbrkGrants :
           \A R \in {mm_realloc(Machine(sb), p, s)} :
              (R.S.st = "ok" /\ R.ret = NULL) => OldBlockKept(R.S, p)

-----------------------------------------------------------------------------
Capacity(p) == PayloadBytes(mem, mm_block(p))

ReturnsSame(p, s) ==
    \A sb \in SbrkGrants :
       \A R \in {mm_realloc(Machine(sb), p, s)} :
          R.ret = p /\ R.copied = -1 /\ R.S.st = "ok" /\ R.S.mem = mem
          /\ R.S.freep = freep /\ R.S.brk = brk

\* C8 as stated: for every live p and every s, zero included, that is at
\* most the payload capacity of p's block, mm_realloc(p, s) returns p and
\* changes no allocator state.
C8_ReallocInPlace_Original ==
    status = "ok" =>
        \A p \in Live : \A s \in ReqBytes(variant) :
           s <= Capacity(p) => ReturnsSame(p, s)

\* C8: for every live p and every s greater than zero that is at most the
\* payload capacity of p's block, mm_realloc(p, s) returns p and changes no
\* allocator state.
C8_ReallocInPlace ==
    status = "ok" =>
        \A p \in Live : \A s \in ReqBytes(variant) :
           (s > 0 /\ s <= Capacity(p)) => ReturnsSame(p, s)

\* a block is resized to exactly its capacity and to less than it
C8_Witness ==
    /\ status = "ok"
    /\ \E p \in Live :
          /\ Capacity(p) > SizeofHeader(variant)
          /\ Capacity(p) \in ReqBytes(variant)
          /\ ReturnsSame(p, Capacity(p))
          /\ ReturnsSame(p, 1)

-----------------------------------------------------------------------------
\* C9: when mm_realloc(p, s) relocates a block it copies exactly
\* min(old_payload_bytes, s) bytes, old_payload_bytes being the old block's
\* size less the overhead units of mm_units, in bytes.
C9_CopyLength ==
    status = "ok" =>
        \A p \in Live : \A s \in ReqBytes(variant), sb \in SbrkGrants :
           \A R \in {mm_realloc(Machine(sb), p, s)} :
              (R.S.st = "ok" /\ R.ret # NULL /\ R.ret # p) =>
                 R.copied = Min(Capacity(p), s)

-----------------------------------------------------------------------------
\* C10: the block that mm_malloc(0) returns has at least one payload unit:
\* its size is at least the overhead units plus one.
C10_ZeroRoundsUp ==
    status = "ok" =>
        \A sb \in SbrkGrants :
           \A R \in {mm_malloc(Machine(sb), 0)} :
              (R.S.st = "ok" /\ R.ret # NULL) =>
                 R.S.mem[mm_block(R.ret)].size >= Overhead(variant) + 1

-----------------------------------------------------------------------------
\* the bytes of a header field within its unit: first byte and length, by the
\* struct of each file (pointers and size_t of 8 bytes, bool of 1)
FieldOffset(fld) ==
    IF variant = "dll" THEN (IF fld = "ptr" THEN 0 ELSE 8)
    ELSE IF fld = "prev" THEN 0
    ELSE IF fld = "next" THEN 8
    ELSE IF fld = "isFree" THEN 16
    ELSE 24
FieldLen(fld) == IF fld = "isFree" THEN 1 ELSE 8

\* a write of field w[2] of unit w[1] changes one of the n bytes at p
WritesInto(w, p, n) ==
    Max(ByteOf(w[1]) + FieldOffset(w[2]), ByteOf(p))
        < Min(ByteOf(w[1]) + FieldOffset(w[2]) + FieldLen(w[2]), ByteOf(p) + n)

\* the call that ended in S wrote none of the n bytes at p
Untouched(S, p, n) == \A w \in S.wr : ~WritesInto(w, p, n)

\* no next call on another pointer writes one of the n bytes at p
KeptByNextCall(S, p, n, others) ==
    /\ \A m \in MallocBytes(variant), sb \in SbrkGrants :
          \A R \in {mm_malloc([S EXCEPT !.sb = sb], m)} : Untouched(R.S, p, n)
    /\ \A q \in others : \A ub \in UBOutcomes(q) :
          \A F \in {mm_free([S EXCEPT !.ub = ub], q)} : Untouched(F, p, n)
    /\ \A q \in others, m \in ReqBytes(variant), sb \in SbrkGrants :
          \A ub \in UBOutcomes(q) :
             \A R \in {mm_realloc([S EXCEPT !.sb = sb, !.ub = ub], q, m)} :
                /\ Untouched(R.S, p, n)
                /\ R.copied > 0 => ~Overlap(R.ret, R.copied, p, n)

\* C11: between the mm_malloc(n) that returns p and the next mm_free(p) or
\* mm_realloc(p), no mm_malloc, mm_free or mm_realloc on other pointers
\* writes any of the n payload bytes at p.
C11_PayloadUntouched ==
    status = "ok" =>
        /\ \A p \in Live : KeptByNextCall(Now, p, live[p], Live \ {p})
        /\ Cardinality(Live) < MaxLive =>
              \A n \in MallocBytes(variant), sb \in SbrkGrants :
                 \A R \in {mm_malloc(Machine(sb), n)} :
                    (R.S.st = "ok" /\ R.ret # NULL) =>
                        KeptByNextCall(After(R.S), R.ret, n, Live \ {R.ret})

-----------------------------------------------------------------------------
\* the allocator on which no call has run yet: static storage is zero
ColdMachine(sb) ==
    [v |-> variant,
     mem |-> [a \in Addr |-> IF a < HeapLo THEN ZeroCell ELSE JunkCell],
     freep |-> NULL, brk |-> 0, up |-> FALSE,
     st |-> "ok", sb |-> sb, ext |-> 0, wr |-> {}, ub |-> "trap"]

Lifecycles == {"mm_init", "mm_reset", "mm_deinit"}

Lifecycle(L, S) ==
    IF L = "mm_init"
    THEN (IF S.v = "dll" THEN dll_mm_init(S) ELSE kr2_mm_init(S))
    ELSE IF L = "mm_reset"
    THEN (IF S.v = "dll" THEN dll_mm_reset(S) ELSE kr2_mm_reset(S))
    ELSE (IF S.v = "dll" THEN dll_mm_deinit(S) ELSE kr2_mm_deinit(S))

\* two calls ended alike: same returned address, same blocks, same arena size
SameAnswer(A, C) ==
    /\ A.S.st = C.S.st
    /\ A.ret = C.ret
    /\ A.S.brk = C.S.brk
    /\ Scrub(A.S) = Scrub(C.S)

\* C12: after mm_init, mm_reset or mm_deinit the next mm_malloc(n) runs on an
\* arena that is set up and ends as the first mm_malloc(n) of an allocator
\* on which nothing has run: same returned address, blocks and arena size.
C12_ColdStart ==
    status = "ok" =>
        \A L \in Lifecycles, n \in ReqBytes(variant), sb \in SbrkGrants :
           \A A \in {mm_malloc([After(Lifecycle(L, Now)) EXCEPT !.sb = sb], n)} :
              \A C \in {mm_malloc(ColdMachine(sb), n)} :
                 SameAnswer(A, C) /\ A.S.up

-----------------------------------------------------------------------------
\* C13: mm_getfree() returns 0 before the first initialization and right
\* after mm_init, mm_reset or mm_deinit, in both variants.
C13_GetfreeZero ==
    status = "ok" =>
        /\ freep = NULL => \A G \in {mm_getfree(Now)} : G.val = 0
        /\ \A L \in Lifecycles :
              \A G \in {mm_getfree(After(Lifecycle(L, Now)))} :
                 G.S.st = "ok" /\ G.val = 0

-----------------------------------------------------------------------------
\* C14: one mm_malloc call extends the arena at most once, and after one
\* successful mem_sbrk it returns a block, for every request size and every
\* heap state, in both variants.
C14_ExtendsOnce ==
    status = "ok" =>
        \A n \in ReqBytes(variant), sb \in SbrkGrants :
           \A R \in {mm_malloc(Machine(sb), n)} :
              R.S.st = "ok" =>
                 /\ R.S.ext <= 1
                 /\ R.S.ext = 1 => R.ret # NULL

-----------------------------------------------------------------------------
\* the block with header b has a free block right below or right above it
FreeNeighbour(b) ==
    \/ \E h \in ArenaBlocks \ {NULL} : h + mem[h].size = b /\ IsFreeBlock(mem, h)
    \/ \E h \in ArenaBlocks \ {NULL} : b + mem[b].size = h /\ IsFreeBlock(mem, h)

\* C15: when a live block a has no free neighbour, mm_free(a) followed at
\* once by an mm_malloc of as many units as a's block returns a again and
\* does not extend the arena, in both variants.
C15_ReusesFreed ==
    status = "ok" =>
        \A a \in Live :
           ~FreeNeighbour(mm_block(a)) =>
              \A ub \in UBOutcomes(a) :
                 \A F \in {mm_free(FreeMachine(ub), a)} :
                    /\ F.st = "ok"
                    /\ \A n \in MallocBytes(variant), sb \in SbrkGrants :
                          mm_units(variant, n) = mem[mm_block(a)].size =>
                             \A R \in {mm_malloc([After(F) EXCEPT !.sb = sb], n)} :
                                /\ R.S.st = "ok"
                                /\ R.ret = a
                                /\ R.S.ext = 0
                                /\ R.S.brk = brk

-----------------------------------------------------------------------------
\* C16: mm_free(NULL) leaves freep, the sentinel, every header and link and
\* the arena size as they are, in every reachable state, in both variants.
C16_FreeNullNoEffect ==
    status = "ok" => \A F \in {mm_free(Now, NULL)} : F = Now

\* mm_free(NULL) with live and free blocks in the arena and the cursor on one
\* of them
C16_Witness ==
    /\ status = "ok" /\ Live # {} /\ freep \in ArenaBlocks
    /\ \E h \in ArenaBlocks \ {NULL} : IsFreeBlock(mem, h)
    /\ \A F \in {mm_free(Now, NULL)} : F = Now

-----------------------------------------------------------------------------
\* the free block h of S ends where the block returned as ret begins and is
\* not a block the call found and left as it was: it is what a split left
Remainder(S, ret, h) ==
    /\ h # NULL /\ IsFreeBlock(S.mem, h)
    /\ h + S.mem[h].size = mm_block(ret)
    /\ h \notin ArenaBlocks \/ mem[h].size # S.mem[h].size

\* C17: mm_malloc never splits a free block so that the free remainder has
\* no payload capacity: a remainder has more units than the overhead (more
\* than 2 in mm_heap_dll.c, more than 1 in mm_heap_kr2.c).
C17_RemainderHasPayload ==
    status = "ok" =>
        \A n \in ReqBytes(variant), sb \in SbrkGrants :
           \A R \in {mm_malloc(Machine(sb), n)} :
              (R.S.st = "ok" /\ R.ret # NULL) =>
                 \A h \in Blocks(R.S) :
                    Remainder(R.S, R.ret, h) => R.S.mem[h].size > Overhead(variant)

-----------------------------------------------------------------------------
\* the list successor of a block
NextOnList(p) == IF variant = "dll" THEN mem[p].ptr ELSE mem[p].next

\* C18: once the list exists, after every operation the cursor freep is the
\* sentinel or the header of a block that is a member of the circular list,
\* in mm_heap_dll.c a free block; never a block that a merge absorbed, and
\* in mm_heap_dll.c never an allocated block.
C18_CursorValid ==
    (status = "ok" /\ freep # NULL) =>
        \/ freep = Base
        \/ /\ freep \in ArenaBlocks \ {NULL}
           /\ freep \in ListFrom(mem, NextOnList(freep), {})
           /\ variant = "dll" => IsFreeBlock(mem, freep)

-----------------------------------------------------------------------------
\* ceil(nbytes / sizeof(Header)) plus the overhead units, in the integers
UnitsFor(nbytes) ==
    (nbytes + SizeofHeader(variant) - 1) \div SizeofHeader(variant)
        + Overhead(variant)

\* C19: with size_t arithmetic modulo 2^w, mm_units(nbytes) is
\* ceil(nbytes / sizeof(Header)) plus the overhead units for every nbytes in
\* [0, 2^w - 1], and the block of every successful mm_malloc(nbytes) has at
\* least nbytes bytes of payload, in both variants.
C19_CapacityCoversRequest ==
    status = "ok" =>
        /\ \A n \in 0..SIZE_MAX : mm_units(variant, n) = UnitsFor(n)
        /\ \A n \in MallocBytes(variant), sb \in SbrkGrants :
              \A R \in {mm_malloc(Machine(sb), n)} :
                 (R.S.st = "ok" /\ R.ret # NULL) =>
                    (R.S.mem[mm_block(R.ret)].size - Overhead(variant))
                        * SizeofHeader(variant) >= n

-----------------------------------------------------------------------------
\* validate_header(bp) of mm_heap_kr2.c on the headers m
validate_header(m, bp) ==
    LET prev == m[bp].prev
        next == m[bp].next
    IN  /\ prev \in Addr /\ next \in Addr
        /\ m[prev].next = bp
        /\ m[next].prev = bp
        /\ ~(prev < bp /\ prev # Base /\ prev + m[prev].size # bp)
        /\ ~(bp < next /\ bp + m[bp].size # next)

\* the blocks on the list of mm_heap_kr2.c: its members but the sentinel
ListBlocks == ListFrom(mem, Base, {}) \ {Base}

UnitsOf(h) == {u \in Addr : h <= u /\ u < h + mem[h].size}

\* C20: in mm_heap_kr2.c, with the sentinel below the arena, after every
\* call every block on the list passes validate_header, and the blocks on the
\* list are in address order and tile the arena: their units are disjoint
\* and make up mem_heapsize() / sizeof(Header) units.
C20_ListValid ==
    (variant = "kr2" /\ status = "ok" /\ freep # NULL) =>
        /\ \A bp \in ListBlocks : validate_header(mem, bp)
        /\ \A bp \in ListBlocks :
              mem[bp].next > bp \/ (mem[bp].next = Base /\ \A h \in ListBlocks : h <= bp)
        /\ ListBlocks # {} => mem[Base].next \in ListBlocks
        /\ \A h \in ListBlocks : \A g \in ListBlocks \ {h} : UnitsOf(h) \cap UnitsOf(g) = {}
        /\ UNION {UnitsOf(h) : h \in ListBlocks} = HeapLo..(HeapLo + brk - 1)
        /\ ListBlocks = ArenaBlocks

\* a list of at least three blocks, free and allocated ones among them
C20_Witness ==
    /\ variant = "kr2" /\ status = "ok"
    /\ Cardinality(ListBlocks) >= 3
    /\ \E h \in ListBlocks : mem[h].isFree
    /\ \E h \in ListBlocks : ~mem[h].isFree
    /\ \A bp \in ListBlocks : validate_header(mem, bp)

-----------------------------------------------------------------------------
\* the tail of the block with header h, by the headers mem
TailOf(h) == h + mem[h].size - 1

\* the members of the circular free list of mm_heap_dll.c: what the links
\* reach from the cursor
FreeListMembers ==
    IF freep = NULL THEN {} ELSE ListFrom(mem, mem[freep].ptr, {})

\* C21: in mm_heap_dll.c, after every call, for every block of the arena the
\* header ptr and the tail ptr are both NULL exactly when the block is
\* allocated and both non-NULL exactly when the block is on the circular free
\* list, and for every member x of the list mm_tail(x->ptr)->ptr is x.
C21_TagsExact ==
    (variant = "dll" /\ status = "ok") =>
        /\ Tiled
        /\ \A h \in ArenaBlocks \ {NULL} :
              /\ (mem[h].ptr = NULL /\ mem[TailOf(h)].ptr = NULL)
                    <=> mm_payload(h) \in Live
              /\ (mem[h].ptr # NULL /\ mem[TailOf(h)].ptr # NULL)
                    <=> h \in FreeListMembers
        /\ \A x \in FreeListMembers :
              /\ mem[x].ptr \in Addr
              /\ mem[mem[x].ptr].size > 0
              /\ mem[mem[x].ptr + mem[mem[x].ptr].size - 1].ptr = x

\* two free blocks and an allocated one between them in the arena, the tags
\* of all three exact
C21_Witness ==
    /\ variant = "dll" /\ status = "ok" /\ Tiled
    /\ \E f \in ArenaBlocks : \E a \in ArenaBlocks : \E g \in ArenaBlocks :
          /\ f + mem[f].size = a /\ a + mem[a].size = g
          /\ mm_payload(a) \in Live
          /\ mem[a].ptr = NULL /\ mem[TailOf(a)].ptr = NULL
          /\ {f, g} \subseteq FreeListMembers
          /\ mem[f].ptr # NULL /\ mem[TailOf(f)].ptr # NULL
          /\ mem[g].ptr # NULL /\ mem[TailOf(g)].ptr # NULL

====
